---- MODULE Spec2Model ----
(***************************************************************************)
(* Model of converter.py: the unit catalog, the conversion engine, the     *)
(* currency-rate cache, the history store, the summary loop and the        *)
(* Convert / Reverse / Clear handlers of the Streamlit script.             *)
(*                                                                         *)
(* Numbers.  Python floats are modelled as integers counting               *)
(* ten-thousandths (1.0 is 10000), computed in exact rational arithmetic;  *)
(* round(x, n) is round-to-nearest with ties to even on the exact value.   *)
(* Conversion factors are kept as integers on a common scale per category  *)
(* (only their ratios enter a conversion).  TLC's integers have 32 bits:   *)
(* the sample values are chosen so that every result fits.                 *)
(*                                                                         *)
(* Python values are records [k, n, s]: k is the type ("float", "str",     *)
(* "None"), n the number, s the pieces of a string in order.               *)
(***************************************************************************)
EXTENDS Integers, Sequences, FiniteSets, TLC

VARIABLES
    historyFile,      \* history.json: [exists, data], data a JSON array of arrays
    ratesFile,        \* currency_rates.json: [exists, data], data a JSON object
    group,            \* category of the latest call / script run
    from_unit,        \* source unit of the latest call / script run
    to_unit,          \* target unit of the latest call / script run
    values,           \* the text input of the latest run, as its comma-separated tokens
    op,               \* the operation that ran last
    ret,              \* what the latest conversion call returned
    raised,           \* the exception the latest operation ended with, or "none"
    fetch,            \* the remote fetch of the latest operation: [status, rates]
    loaded,           \* what the latest load_history() returned
    category_counts,  \* the summary of the latest run of the summary loop
    messages,         \* st.success / st.error calls of the latest script run
    saved,            \* records handed to save_history since the history was last empty
    back              \* result of converting ret back (round trip)

vars == <<historyFile, ratesFile, group, from_unit, to_unit, values, op, ret,
          raised, fetch, loaded, category_counts, messages, saved, back>>

----------------------------------------------------------------------------
(* Python values *)

PyFloat(x) == [k |-> "float", n |-> x, s |-> <<>>]

PyStr(pieces) == [k |-> "str", n |-> 0, s |-> pieces]

PyNone == [k |-> "None", n |-> 0, s |-> <<>>]

(* a * b = q * c + r with 0 <= r < c, as <<q, r>>, for a >= 0, b >= 0, c > 0;   *)
(* computed bit by bit so that no intermediate product leaves 32 bits          *)
RECURSIVE MulDivMod(_, _, _)
MulDivMod(a, b, c) ==
    IF a = 0 THEN <<0, 0>>
    ELSE CHOOSE m \in { <<2 * h[1] + ((2 * h[2] + (a % 2) * b) \div c),
                           (2 * h[2] + (a % 2) * b) % c>> :
                         h \in {MulDivMod(a \div 2, b, c)} } : TRUE

(* round(): the integer nearest to a * b / c (b >= 0, c > 0), ties to even *)
RoundNearest(m, c) ==
    IF 2 * m[2] < c THEN m[1]
    ELSE IF 2 * m[2] > c THEN m[1] + 1
    ELSE IF m[1] % 2 = 0 THEN m[1] ELSE m[1] + 1

RoundHalfEven(a, b, c) ==
    IF a < 0
    THEN 0 - (CHOOSE x \in {RoundNearest(m, c) : m \in {MulDivMod(0 - a, b, c)}} : TRUE)
    ELSE CHOOSE x \in {RoundNearest(m, c) : m \in {MulDivMod(a, b, c)}} : TRUE

----------------------------------------------------------------------------
(* UnitCatalog *)

categories == <<"Length", "Weight", "Temperature", "Speed", "Currency">>

UnitsWithYard(category) ==
    IF category = "Length" THEN <<"Meter", "Kilometer", "Centimeter", "Mile", "Yard">>
    ELSE IF category = "Weight" THEN <<"Kilogram", "Gram", "Pound", "Ounce">>
    ELSE IF category = "Temperature" THEN <<"Celsius", "Fahrenheit">>
    ELSE IF category = "Speed" THEN <<"m/s", "km/h", "mph">>
    ELSE IF category = "Currency" THEN <<"USD", "EUR", "GBP", "INR", "PKR">>
    ELSE <<>>

get_supported_units(category) ==
    IF category = "Length" THEN <<"Meter", "Kilometer", "Centimeter", "Mile">>
    ELSE IF category = "Weight" THEN <<"Kilogram", "Gram", "Pound", "Ounce">>
    ELSE IF category = "Temperature" THEN <<"Celsius", "Fahrenheit">>
    ELSE IF category = "Speed" THEN <<"m/s", "km/h", "mph">>
    ELSE IF category = "Currency" THEN <<"USD", "EUR", "GBP", "INR", "PKR">>
    ELSE <<>>

Range(seq) == {seq[i] : i \in DOMAIN seq}

----------------------------------------------------------------------------
(* ConversionEngine *)

(* Length in hundredths of a meter, Weight in 1e-7 kilogram, Speed in 1e-3 *)
factors ==
    ("Length" :> ("Meter" :> 100 @@ "Kilometer" :> 100000 @@ "Centimeter" :> 1
                  @@ "Mile" :> 160934))
    @@ ("Weight" :> ("Kilogram" :> 10000000 @@ "Gram" :> 10000 @@ "Pound" :> 4535920
                     @@ "Ounce" :> 283495))
    @@ ("Speed" :> ("m/s" :> 1000 @@ "km/h" :> 3600 @@ "mph" :> 2237))

(* a call's outcome: the exception it ended with, or its return value *)
Returned(v) == [exc |-> "none", val |-> v]

Raised(e) == [exc |-> e, val |-> PyNone]

ConversionRoundedTo2(category, fromU, toU, value) ==
    IF category \in DOMAIN factors
    THEN IF fromU \notin DOMAIN factors[category] \/ toU \notin DOMAIN factors[category]
         THEN Raised("KeyError")
         ELSE Returned(PyFloat(100 * RoundHalfEven(value, factors[category][fromU],
                                                   100 * factors[category][toU])))
    ELSE IF category = "Temperature"
    THEN IF fromU = "Celsius" /\ toU = "Fahrenheit"
         THEN Returned(PyFloat(100 * RoundHalfEven(value * 9 + 1600000, 1, 500)))
         ELSE IF fromU = "Fahrenheit" /\ toU = "Celsius"
         THEN Returned(PyFloat(100 * RoundHalfEven((value - 320000) * 5, 1, 900)))
         ELSE Returned(PyNone)
    ELSE Returned(PyNone)

ConversionSameUnitIdentity(category, fromU, toU, value) ==
    IF category \in DOMAIN factors
    THEN IF fromU \notin DOMAIN factors[category] \/ toU \notin DOMAIN factors[category]
         THEN Raised("KeyError")
         ELSE Returned(PyFloat(RoundHalfEven(value, factors[category][fromU],
                                             factors[category][toU])))
    ELSE IF fromU = toU
    THEN Returned(PyFloat(value))
    ELSE IF category = "Temperature"
    THEN IF fromU = "Celsius" /\ toU = "Fahrenheit"
         THEN Returned(PyFloat(100 * RoundHalfEven(value * 9 + 1600000, 1, 500)))
         ELSE IF fromU = "Fahrenheit" /\ toU = "Celsius"
         THEN Returned(PyFloat(100 * RoundHalfEven((value - 320000) * 5, 1, 900)))
         ELSE Returned(PyNone)
    ELSE Returned(PyNone)

multi_step_conversion(category, fromU, toU, value) ==
    IF category \in DOMAIN factors
    THEN IF fromU \notin DOMAIN factors[category] \/ toU \notin DOMAIN factors[category]
         THEN Raised("KeyError")
         ELSE Returned(PyFloat(RoundHalfEven(value, factors[category][fromU],
                                             factors[category][toU])))
    ELSE IF category = "Temperature"
    THEN IF fromU = "Celsius" /\ toU = "Fahrenheit"
         THEN Returned(PyFloat(100 * RoundHalfEven(value * 9 + 1600000, 1, 500)))
         ELSE IF fromU = "Fahrenheit" /\ toU = "Celsius"
         THEN Returned(PyFloat(100 * RoundHalfEven((value - 320000) * 5, 1, 900)))
         ELSE Returned(PyNone)
    ELSE Returned(PyNone)

----------------------------------------------------------------------------
(* JSON documents: a JSON value is [t, n, s], t one of "number", "string", "null" *)

json_dump_value(v) ==
    IF v.k = "float" THEN [t |-> "number", n |-> v.n, s |-> <<>>]
    ELSE IF v.k = "str" THEN [t |-> "string", n |-> 0, s |-> v.s]
    ELSE [t |-> "null", n |-> 0, s |-> <<>>]

json_load_value(j) ==
    IF j.t = "number" THEN PyFloat(j.n)
    ELSE IF j.t = "string" THEN PyStr(j.s)
    ELSE PyNone

(* a list of lists, as the history is *)
json_dump(history) ==
    [i \in DOMAIN history |-> [x \in DOMAIN history[i] |-> json_dump_value(history[i][x])]]

json_load(data) ==
    [i \in DOMAIN data |-> [x \in DOMAIN data[i] |-> json_load_value(data[i][x])]]

(* a dict of numbers, as the rate table is *)
json_dump_rates(rates) ==
    [c \in DOMAIN rates |-> [t |-> "number", n |-> rates[c], s |-> <<>>]]

json_load_rates(data) == [c \in DOMAIN data |-> data[c].n]

NoRates == [c \in {} |-> 0]

AbsentHistory == [exists |-> FALSE, data |-> <<>>]

AbsentRates == [exists |-> FALSE, data |-> json_dump_rates(NoRates)]

----------------------------------------------------------------------------
(* HistoryStore *)

load_history(file) == IF file.exists THEN json_load(file.data) ELSE <<>>

SaveOverwriting(file, conversion) ==
    [exists |-> TRUE, data |-> json_dump(<<conversion>>)]

save_history(file, conversion) ==
    [exists |-> TRUE, data |-> json_dump(Append(load_history(file), conversion))]

ClearKeepingFirst(file) ==
    [exists |-> TRUE,
     data |-> json_dump(IF load_history(file) = <<>> THEN <<>>
                        ELSE <<load_history(file)[1]>>)]

clear_history(file) == [exists |-> TRUE, data |-> json_dump(<<>>)]

----------------------------------------------------------------------------
(* CurrencyCache *)

(* what requests.get(url).json() gives: a document with "rates", or no answer *)
Response(rates) == [ok |-> TRUE, rates |-> rates]

NoResponse == [ok |-> FALSE, rates |-> NoRates]

NoFetch == [status |-> "none", rates |-> NoRates]

update_currency_rates(file, response) ==
    IF response.ok
    THEN [exc |-> "none", rates |-> response.rates,
          file |-> [exists |-> TRUE, data |-> json_dump_rates(response.rates)]]
    ELSE [exc |-> "ConnectionError", rates |-> NoRates, file |-> file]

Unavailable(from_currency, to_currency) ==
    PyStr(<<"(x) Conversion not available for ", from_currency, " to ", to_currency>>)

RateLookupInverted(amount, from_currency, to_currency, offline_rates) ==
    IF from_currency \in DOMAIN offline_rates /\ to_currency \in DOMAIN offline_rates
    THEN IF offline_rates[to_currency] = 0
         THEN Raised("ZeroDivisionError")
         ELSE Returned(PyFloat(100 * RoundHalfEven(amount, offline_rates[from_currency],
                                                   100 * offline_rates[to_currency])))
    ELSE Returned(Unavailable(from_currency, to_currency))

(* lines 72-73 and 77-79: the lookup in the table in hand *)
RateLookup(amount, from_currency, to_currency, offline_rates) ==
    IF from_currency \in DOMAIN offline_rates /\ to_currency \in DOMAIN offline_rates
    THEN IF offline_rates[from_currency] = 0
         THEN Raised("ZeroDivisionError")
         ELSE Returned(PyFloat(100 * RoundHalfEven(amount, offline_rates[to_currency],
                                                   100 * offline_rates[from_currency])))
    ELSE Returned(Unavailable(from_currency, to_currency))

ConvertAlwaysFetching(amount, from_currency, to_currency, file, response) ==
    LET u == update_currency_rates(file, response)
        r == RateLookup(amount, from_currency, to_currency, u.rates)
    IN  IF u.exc # "none"
        THEN [exc |-> u.exc, val |-> PyNone, file |-> u.file,
              fetch |-> [status |-> "failed", rates |-> NoRates]]
        ELSE [exc |-> r.exc, val |-> r.val, file |-> u.file,
              fetch |-> [status |-> "ok", rates |-> u.rates]]

(* the call's outcome: exception or value, the cache file after it, the fetch made *)
convert_currency(amount, from_currency, to_currency, file, response) ==
    IF file.exists
    THEN LET r == RateLookup(amount, from_currency, to_currency,
                             json_load_rates(file.data))
         IN  [exc |-> r.exc, val |-> r.val, file |-> file, fetch |-> NoFetch]
    ELSE LET u == update_currency_rates(file, response)
             r == RateLookup(amount, from_currency, to_currency, u.rates)
         IN  IF u.exc # "none"
             THEN [exc |-> u.exc, val |-> PyNone, file |-> u.file,
                   fetch |-> [status |-> "failed", rates |-> NoRates]]
             ELSE [exc |-> r.exc, val |-> r.val, file |-> u.file,
                   fetch |-> [status |-> "ok", rates |-> u.rates]]

----------------------------------------------------------------------------
(* SummaryAggregator: the category_counts loop *)

NoCounts == [c \in {} |-> 0]

(* category_counts[category] += 1 on a defaultdict(int) *)
Increment(counts, category) ==
    IF category \in DOMAIN counts
    THEN [counts EXCEPT ![category] = @ + 1]
    ELSE counts @@ (category :> 1)

(* from_unit in get_supported_units(category), from_unit any JSON-loaded value *)
IsUnitOf(v, category) ==
    /\ v.k = "str"
    /\ \E u \in Range(get_supported_units(category)) : v.s = <<u>>

CountByToUnit(counts, record) ==
    LET hits == {i \in DOMAIN categories : IsUnitOf(record[3], categories[i])}
    IN  IF hits = {} THEN counts
        ELSE Increment(counts, categories[CHOOSE i \in hits : \A j \in hits : i <= j])

(* one pass of the outer loop: the inner loop stops at the first category found *)
CountRecord(counts, record) ==
    LET hits == {i \in DOMAIN categories : IsUnitOf(record[2], categories[i])}
    IN  IF hits = {} THEN counts
        ELSE Increment(counts, categories[CHOOSE i \in hits : \A j \in hits : i <= j])

RECURSIVE CountAll(_, _)
CountAll(counts, history) ==
    IF history = <<>> THEN counts
    ELSE CountAll(CountRecord(counts, Head(history)), Tail(history))

Summarize(history) == CountAll(NoCounts, history)

----------------------------------------------------------------------------
(* Bounds and sample inputs *)

MaxHistory == 3       \* save_history is called while the history is shorter than this

MaxBatch == 2         \* most comma-separated tokens typed into the text input

MaxShown == 1         \* Convert / Reverse are pressed while the file holds fewer records

(* a token of the text input: a number float() parses, or text it rejects *)
Num(x) == [ok |-> TRUE, n |-> x]

NotANumber == [ok |-> FALSE, n |-> 0]

(* rate tables, in hundredths: the table {USD: 1, EUR: 0.9}, and one with every *)
(* code the form offers                                                          *)
ExampleTable == "USD" :> 100 @@ "EUR" :> 90

FullTable ==
    "USD" :> 100 @@ "EUR" :> 92 @@ "GBP" :> 79 @@ "INR" :> 8300 @@ "PKR" :> 27850

Responses == {Response(ExampleTable), Response(FullTable), NoResponse}

Cached(rates) == [exists |-> TRUE, data |-> json_dump_rates(rates)]

Record(value, fromU, toU, result) ==
    <<PyFloat(value), PyStr(<<fromU>>), PyStr(<<toU>>), result>>

SampleRecords ==
    { Record(10000, "Meter", "Kilometer", PyFloat(10)),
      Record(10000, "Kilogram", "Gram", PyFloat(10000000)),
      Record(10000, "Celsius", "Celsius", PyNone),
      Record(10000, "m/s", "km/h", PyFloat(2778)),
      Record(1000000, "USD", "XYZ", Unavailable("USD", "XYZ")),
      Record(50000, "Kelvin", "Celsius", PyNone) }

StoreAmounts == {1000000, 12345, 0 - 2500}

StoreCodes == {"USD", "EUR", "XYZ"}

EngineCategories == Range(categories) \cup {"Volume"}

EngineUnits ==
    UNION {Range(get_supported_units(c)) : c \in Range(categories)} \cup {"Kelvin"}

EngineValues == {0, 1, 5, 5000, 10000, 12345, 0 - 10000}

----------------------------------------------------------------------------
(* What every operation leaves behind for the next observation *)

Inputs(g, f, t, vs) ==
    /\ group' = g
    /\ from_unit' = f
    /\ to_unit' = t
    /\ values' = vs

Observed(o, r, e, fe, l, cc, m, b) ==
    /\ op' = o
    /\ ret' = r
    /\ raised' = e
    /\ fetch' = fe
    /\ loaded' = l
    /\ category_counts' = cc
    /\ messages' = m
    /\ back' = b

Quiet ==
    /\ group = ""
    /\ from_unit = ""
    /\ to_unit = ""
    /\ values = <<>>
    /\ op = "init"
    /\ ret = PyNone
    /\ raised = "none"
    /\ fetch = NoFetch
    /\ loaded = <<>>
    /\ category_counts = NoCounts
    /\ messages = <<>>
    /\ saved = <<>>
    /\ back = PyNone

----------------------------------------------------------------------------
(* The history store and the currency cache, called one function at a time *)

HistoryInit ==
    /\ historyFile \in {AbsentHistory, clear_history(AbsentHistory)}
    /\ ratesFile \in {AbsentRates, Cached(ExampleTable)}
    /\ Quiet

LoadHistory ==
    /\ Inputs("", "", "", <<>>)
    /\ Observed("load_history", PyNone, "none", NoFetch, load_history(historyFile),
                NoCounts, <<>>, PyNone)
    /\ UNCHANGED <<historyFile, ratesFile, saved>>

SaveHistory(conversion) ==
    /\ Len(load_history(historyFile)) < MaxHistory
    /\ historyFile' = save_history(historyFile, conversion)
    /\ saved' = Append(saved, conversion)
    /\ Inputs("", "", "", <<>>)
    /\ Observed("save_history", PyNone, "none", NoFetch, <<>>, NoCounts, <<>>, PyNone)
    /\ UNCHANGED ratesFile

ClearHistory ==
    /\ historyFile' = clear_history(historyFile)
    /\ saved' = <<>>
    /\ Inputs("", "", "", <<>>)
    /\ Observed("clear_history", PyNone, "none", NoFetch, loaded, NoCounts, <<>>,
                PyNone)
    /\ UNCHANGED ratesFile

(* lines 121 and 140-148: the history is loaded and counted *)
Summary ==
    /\ Inputs("", "", "", <<>>)
    /\ Observed("summary", PyNone, "none", NoFetch, load_history(historyFile),
                Summarize(load_history(historyFile)), <<>>, PyNone)
    /\ UNCHANGED <<historyFile, ratesFile, saved>>

ConvertCurrency(amount, from_currency, to_currency) ==
    \E response \in IF ratesFile.exists THEN {NoResponse} ELSE Responses :
        \E c \in {convert_currency(amount, from_currency, to_currency, ratesFile,
                                  response)} :
            /\ ratesFile' = c.file
            /\ Inputs("Currency", from_currency, to_currency, <<Num(amount)>>)
            /\ Observed("convert_currency", c.val, c.exc, c.fetch, <<>>, NoCounts,
                        <<>>, PyNone)
            /\ UNCHANGED <<historyFile, saved>>

HistoryNext ==
    \/ LoadHistory
    \/ \E conversion \in SampleRecords : SaveHistory(conversion)
    \/ ClearHistory
    \/ Summary
    \/ \E t \in {"EUR", "XYZ"} : ConvertCurrency(1000000, "USD", t)

SpecHistory == HistoryInit /\ [][HistoryNext]_vars

CacheInit ==
    /\ historyFile = AbsentHistory
    /\ ratesFile \in {AbsentRates, Cached(ExampleTable), Cached(FullTable)}
    /\ Quiet

CacheNext ==
    \E amount \in StoreAmounts, f \in StoreCodes, t \in StoreCodes :
        ConvertCurrency(amount, f, t)

SpecCache == CacheInit /\ [][CacheNext]_vars

----------------------------------------------------------------------------
(* The conversion engine, applied to inputs drawn at the start *)

EngineInit ==
    /\ \/ historyFile = AbsentHistory /\ ratesFile = AbsentRates
       \/ /\ historyFile = save_history(AbsentHistory,
                                        Record(10000, "Meter", "Kilometer", PyFloat(10)))
          /\ ratesFile = Cached(ExampleTable)
    /\ group \in EngineCategories
    /\ from_unit \in EngineUnits
    /\ to_unit \in EngineUnits
    /\ values \in {<<Num(v)>> : v \in EngineValues}
    /\ op = "init"
    /\ ret = PyNone
    /\ raised = "none"
    /\ fetch = NoFetch
    /\ loaded = <<>>
    /\ category_counts = NoCounts
    /\ messages = <<>>
    /\ saved = <<>>
    /\ back = PyNone

CallConversion ==
    /\ op = "init"
    /\ LET r == multi_step_conversion(group, from_unit, to_unit, values[1].n)
       IN  Observed("multi_step_conversion", r.val, r.exc, NoFetch, <<>>, NoCounts,
                    <<>>, PyNone)
    /\ UNCHANGED <<historyFile, ratesFile, group, from_unit, to_unit, values, saved>>

CallConversionBack ==
    /\ op = "multi_step_conversion"
    /\ raised = "none"
    /\ ret.k = "float"
    /\ LET r == multi_step_conversion(group, to_unit, from_unit, ret.n)
       IN  Observed("round_trip", ret, r.exc, NoFetch, <<>>, NoCounts, <<>>, r.val)
    /\ UNCHANGED <<historyFile, ratesFile, group, from_unit, to_unit, values, saved>>

EngineNext == CallConversion \/ CallConversionBack

SpecEngine == EngineInit /\ [][EngineNext]_vars

----------------------------------------------------------------------------
(* The Streamlit script: one action per button press, each a whole script run.  *)
(* The selectboxes hand the run a category and two units of that category's    *)
(* list; the text input hands it the typed tokens.                             *)

Success(value, fromU, toU, result) ==
    [kind |-> "success", value |-> PyFloat(value), from |-> fromU, to |-> toU,
     result |-> result]

InvalidConversion ==
    [kind |-> "error", value |-> PyNone, from |-> "", to |-> "",
     result |-> PyStr(<<"(x) Invalid conversion.">>)]

(* lines 106 and 112: the engine, or the currency cache for group Currency *)
ConvertOne(g, fromU, toU, value, file, response) ==
    IF g # "Currency"
    THEN LET r == multi_step_conversion(g, fromU, toU, value)
         IN  [exc |-> r.exc, val |-> r.val, file |-> file, fetch |-> NoFetch]
    ELSE convert_currency(value, fromU, toU, file, response)

(* the results so far, with one more conversion's outcome c *)
Collected(acc, c) ==
    [exc |-> c.exc,
     results |-> IF c.exc = "none" THEN Append(acc.results, c.val) ELSE acc.results,
     file |-> c.file,
     fetch |-> IF c.fetch.status # "none" THEN c.fetch ELSE acc.fetch]

(* the conversions of a run in order, stopping at the first exception; acc is *)
(* [exc, results, file, fetch]                                                 *)
RECURSIVE ConvertEach(_, _, _, _, _, _)
ConvertEach(g, fromU, toU, nums, acc, response) ==
    IF nums = <<>> \/ acc.exc # "none" THEN acc
    ELSE CHOOSE out \in
            { ConvertEach(g, fromU, toU, Tail(nums), a, response) :
                a \in { Collected(acc, c) :
                         c \in {ConvertOne(g, fromU, toU, Head(nums), acc.file,
                                           response)} } } : TRUE

RECURSIVE SaveEach(_, _)
SaveEach(file, conversions) ==
    IF conversions = <<>> THEN file
    ELSE SaveEach(save_history(file, Head(conversions)), Tail(conversions))

Failed(e, hfile, rfile, fe) ==
    [exc |-> e, messages |-> <<>>, historyFile |-> hfile, ratesFile |-> rfile,
     fetch |-> fe, result |-> PyNone]

(* lines 107-109 and 113-117: what is shown and saved, given the results c *)
ShowAndSave(fromU, toU, nums, c, hfile) ==
    IF c.exc # "none"
    THEN Failed(c.exc, hfile, c.file, c.fetch)
    ELSE IF Len(nums) > 1
    THEN [exc |-> "none",
          messages |-> [i \in DOMAIN nums |->
                           Success(nums[i], fromU, toU, c.results[i])],
          historyFile |-> SaveEach(hfile,
                             [i \in DOMAIN nums |->
                                 Record(nums[i], fromU, toU, c.results[i])]),
          ratesFile |-> c.file, fetch |-> c.fetch,
          result |-> c.results[Len(nums)]]
    ELSE IF c.results[1] # PyNone
    THEN [exc |-> "none",
          messages |-> <<Success(nums[1], fromU, toU, c.results[1])>>,
          historyFile |-> save_history(hfile,
                             Record(nums[1], fromU, toU, c.results[1])),
          ratesFile |-> c.file, fetch |-> c.fetch, result |-> c.results[1]]
    ELSE [exc |-> "none", messages |-> <<InvalidConversion>>,
          historyFile |-> hfile, ratesFile |-> c.file, fetch |-> c.fetch,
          result |-> PyNone]

(* lines 103-117: float() of every token, every conversion, then the display *)
ConvertPressed(g, fromU, toU, tokens, hfile, rfile, response) ==
    IF \E i \in DOMAIN tokens : ~tokens[i].ok
    THEN Failed("ValueError", hfile, rfile, NoFetch)
    ELSE CHOOSE out \in
            { ShowAndSave(fromU, toU, [i \in DOMAIN tokens |-> tokens[i].n], c, hfile) :
                c \in { ConvertEach(g, fromU, toU,
                                    [i \in DOMAIN tokens |-> tokens[i].n],
                                    [exc |-> "none", results |-> <<>>, file |-> rfile,
                                     fetch |-> NoFetch],
                                    response) } } : TRUE

(* what is typed: 1.0 once or several times, the last token possibly not a number *)
TextInputs ==
    {[i \in 1..n |-> Num(10000)] : n \in 1..MaxBatch}
        \cup {<<NotANumber>>, <<Num(10000), NotANumber>>}

AppInit ==
    /\ historyFile \in {AbsentHistory, clear_history(AbsentHistory)}
    /\ ratesFile \in {AbsentRates, Cached(ExampleTable)}
    /\ Quiet

(* the Convert button; a run that ends in an exception shows nothing else *)
Convert(g, fromU, toU, tokens) ==
    /\ Len(historyFile.data) < MaxShown
    /\ \E response \in IF g = "Currency" /\ ~ratesFile.exists THEN Responses
                         ELSE {NoResponse} :
        \E c \in {ConvertPressed(g, fromU, toU, tokens, historyFile, ratesFile,
                                response)} :
            /\ historyFile' = c.historyFile
            /\ ratesFile' = c.ratesFile
            /\ IF c.exc = "none"
               THEN /\ Inputs(g, fromU, toU, tokens)
                    /\ Observed("Convert", c.result, "none", c.fetch,
                                load_history(c.historyFile),
                                Summarize(load_history(c.historyFile)), c.messages,
                                PyNone)
               ELSE /\ Inputs("", "", "", <<>>)
                    /\ Observed("Convert", PyNone, c.exc, c.fetch, <<>>, NoCounts,
                                <<>>, PyNone)
            /\ UNCHANGED saved

(* the Reverse button swaps the two units for the rest of its run, in which   *)
(* Convert is not pressed: the run converts nothing                          *)
Reverse(g, fromU, toU) ==
    /\ Len(historyFile.data) < MaxShown
    /\ fromU \in Range(get_supported_units(g))
    /\ toU \in Range(get_supported_units(g))
    /\ Inputs("", "", "", <<>>)
    /\ Observed("Reverse", PyNone, "none", NoFetch, load_history(historyFile),
                Summarize(load_history(historyFile)), <<>>, PyNone)
    /\ UNCHANGED <<historyFile, ratesFile, saved>>

(* the Clear All History button, shown while the history is not empty, and the *)
(* rerun it asks for                                                           *)
ClearAll ==
    /\ load_history(historyFile) # <<>>
    /\ historyFile' = clear_history(historyFile)
    /\ Inputs("", "", "", <<>>)
    /\ Observed("ClearAll", PyNone, "none", NoFetch,
                load_history(clear_history(historyFile)),
                Summarize(load_history(clear_history(historyFile))), <<>>, PyNone)
    /\ UNCHANGED <<ratesFile, saved>>

Next ==
    \/ \E i \in DOMAIN categories :
         \E fromU \in Range(get_supported_units(categories[i])),
            toU \in Range(get_supported_units(categories[i])) :
             \/ \E tokens \in TextInputs : Convert(categories[i], fromU, toU, tokens)
             \/ Reverse(categories[i], fromU, toU)
    \/ ClearAll

Init == AppInit

Spec == Init /\ [][Next]_vars

----------------------------------------------------------------------------
(* Properties *)

Dist(a, b) == IF a >= b THEN a - b ELSE b - a

Linear == {"Length", "Weight", "Speed"}

(* C1: starting from an empty or absent history file, load_history() returns   *)
(* exactly the records handed to save_history since then (since the last       *)
(* clear), in the order they were saved, each unchanged.                       *)
C1_LoadReturnsSavedInOrder ==
    /\ load_history(historyFile) = saved
    /\ op = "load_history" => loaded = saved

C1_Witness ==
    /\ op = "load_history"
    /\ Len(loaded) = 3
    /\ loaded[1] = Record(1000000, "USD", "XYZ", Unavailable("USD", "XYZ"))
    /\ loaded[2] = Record(10000, "Celsius", "Celsius", PyNone)
    /\ loaded[3] = Record(10000, "Meter", "Kilometer", PyFloat(10))

(* C2: in every step the persisted history stays unchanged, or grows by exactly *)
(* one record at the end with the earlier records unchanged (save_history), or  *)
(* becomes the empty sequence (clear_history, also with no file before); and    *)
(* load_history() right after clear_history() returns the empty sequence.       *)
C2_AppendOnlyExceptClear ==
    /\ [][ \/ load_history(historyFile') = load_history(historyFile)
           \/ /\ op' = "save_history"
              /\ Len(load_history(historyFile')) = Len(load_history(historyFile)) + 1
              /\ SubSeq(load_history(historyFile'), 1, Len(load_history(historyFile)))
                    = load_history(historyFile)
           \/ /\ op' = "clear_history"
              /\ load_history(historyFile') = <<>> ]_vars
    /\ [][ op' = "clear_history" =>
              historyFile'.exists /\ load_history(historyFile') = <<>> ]_vars
    /\ [][ op = "clear_history" /\ op' = "load_history" => loaded' = <<>> ]_vars

C2_Witness ==
    /\ op = "clear_history"
    /\ Len(loaded) = 3
    /\ historyFile.exists
    /\ load_history(historyFile) = <<>>

(* C3: convert_currency fetches only when the cache file is absent, and then    *)
(* writes the whole fetched table to the cache; with the cache file present no  *)
(* call fetches or changes the cached table, whatever the codes.                *)
C3_FetchOnlyWhenCacheAbsent ==
    [][ op' = "convert_currency" =>
          /\ ratesFile.exists => fetch'.status = "none" /\ ratesFile' = ratesFile
          /\ ~ratesFile.exists => fetch'.status # "none"
          /\ fetch'.status = "ok" =>
                /\ ratesFile'.exists
                /\ json_load_rates(ratesFile'.data) = fetch'.rates
          /\ fetch'.status = "failed" => ratesFile' = ratesFile ]_vars

C3_Witness ==
    /\ op = "convert_currency"
    /\ fetch.status = "ok"
    /\ fetch.rates = ExampleTable
    /\ ratesFile = Cached(ExampleTable)
    /\ from_unit = "XYZ"

(* C4: convert_currency returns the number nearest (to 2 decimals) to           *)
(* amount * rate[to] / rate[from] when both codes are in the table it loaded or *)
(* fetched, and otherwise the unavailable signal naming the pair, never a       *)
(* number; the only exception it ends with is the failed fetch.                 *)
C4_NumberOrUnavailable ==
    op = "convert_currency" =>
        /\ raised \in {"none", "ConnectionError"}
        /\ raised = "ConnectionError" <=> fetch.status = "failed"
        /\ raised = "none" =>
            /\ ratesFile.exists
            /\ fetch.status = "ok" => fetch.rates = json_load_rates(ratesFile.data)
            /\ IF /\ from_unit \in DOMAIN ratesFile.data
                  /\ to_unit \in DOMAIN ratesFile.data
               THEN /\ ret.k = "float"
                    /\ ret.n % 100 = 0
                    /\ 2 * Dist((ret.n \div 100) * 100 * ratesFile.data[from_unit].n,
                                values[1].n * ratesFile.data[to_unit].n)
                          <= 100 * ratesFile.data[from_unit].n
               ELSE ret = PyStr(<<"(x) Conversion not available for ", from_unit,
                                  " to ", to_unit>>)

C4_Witness ==
    /\ op = "convert_currency"
    /\ fetch.status = "ok"
    /\ from_unit = "USD"
    /\ to_unit = "EUR"
    /\ values = <<Num(1000000)>>
    /\ ret = PyFloat(900000)

(* C5 (as claimed): every Convert run that completes appends one record        *)
(* [value, fromUnit, toUnit, result] per input value to the persisted history, *)
(* on the single-value path and on the batch path, also when there is no       *)
(* result.                                                                     *)
C5_EveryConversionRecorded ==
    [][ op' = "Convert" /\ raised' = "none" =>
          /\ Len(load_history(historyFile'))
                = Len(load_history(historyFile)) + Len(values')
          /\ SubSeq(load_history(historyFile'), 1, Len(load_history(historyFile)))
                = load_history(historyFile)
          /\ \A i \in DOMAIN values' :
                /\ load_history(historyFile')[Len(load_history(historyFile)) + i][1]
                      = PyFloat(values'[i].n)
                /\ load_history(historyFile')[Len(load_history(historyFile)) + i][2]
                      = PyStr(<<from_unit'>>)
                /\ load_history(historyFile')[Len(load_history(historyFile)) + i][3]
                      = PyStr(<<to_unit'>>) ]_vars

(* C6: multi_step_conversion returns None and raises nothing for Temperature   *)
(* with any pair other than Celsius->Fahrenheit and Fahrenheit->Celsius, and   *)
(* for every category other than Length, Weight, Speed and Temperature; it     *)
(* changes neither the history file nor the rate cache.                        *)
C6_NoResultAndNoEffect ==
    /\ [] ( /\ op = "multi_step_conversion"
            /\ \/ /\ group = "Temperature"
                  /\ ~(from_unit = "Celsius" /\ to_unit = "Fahrenheit")
                  /\ ~(from_unit = "Fahrenheit" /\ to_unit = "Celsius")
               \/ group \notin {"Length", "Weight", "Speed", "Temperature"}
            => ret = PyNone /\ raised = "none" )
    /\ [][ op' = "multi_step_conversion" =>
              historyFile' = historyFile /\ ratesFile' = ratesFile ]_vars

C6_Witness ==
    /\ op = "multi_step_conversion"
    /\ group = "Temperature"
    /\ from_unit = "Celsius"
    /\ to_unit = "Celsius"
    /\ values = <<Num(12345)>>
    /\ ret = PyNone
    /\ historyFile.exists

(* C7 (as claimed): a Convert run on an unsupported pair (Temperature with the *)
(* same unit twice) shows a failure message and no success message, on the     *)
(* single-value path and on the batch path.                                    *)
C7_UnsupportedShownAsFailure ==
    ( /\ op = "Convert"
      /\ raised = "none"
      /\ group = "Temperature"
      /\ from_unit = to_unit )
    => /\ messages # <<>>
       /\ \A i \in DOMAIN messages : messages[i].kind = "error"

(* C8: the summary counts each record under the first category, in the order   *)
(* Length, Weight, Temperature, Speed, Currency, whose unit list holds the     *)
(* record's fromUnit, and leaves out records whose fromUnit is in no list; the *)
(* counts sum to the number of records whose fromUnit is in the catalog, and   *)
(* fromUnits Meter, Kilogram, Meter give Length 2, Weight 1 and nothing else.  *)
InCategory(record, i) ==
    \E u \in Range(get_supported_units(categories[i])) : record[2] = PyStr(<<u>>)

CountedUnder(i) ==
    Cardinality({n \in DOMAIN loaded :
                    /\ InCategory(loaded[n], i)
                    /\ \A j \in 1..(i - 1) : ~InCategory(loaded[n], j)})

CountAt(i) ==
    IF categories[i] \in DOMAIN category_counts THEN category_counts[categories[i]]
    ELSE 0

C8_SummaryCountsFirstCategory ==
    op = "summary" =>
        /\ loaded = load_history(historyFile)
        /\ DOMAIN category_counts \subseteq Range(categories)
        /\ \A i \in DOMAIN categories :
              /\ CountAt(i) = CountedUnder(i)
              /\ categories[i] \in DOMAIN category_counts <=> CountedUnder(i) > 0
        /\ CountAt(1) + CountAt(2) + CountAt(3) + CountAt(4) + CountAt(5)
              = Cardinality({n \in DOMAIN loaded :
                                \E i \in DOMAIN categories : InCategory(loaded[n], i)})
        /\ ( /\ Len(loaded) = 3
             /\ loaded[1][2] = PyStr(<<"Meter">>)
             /\ loaded[2][2] = PyStr(<<"Kilogram">>)
             /\ loaded[3][2] = PyStr(<<"Meter">>) )
           => category_counts = ("Length" :> 2 @@ "Weight" :> 1)

C8_Witness ==
    /\ op = "summary"
    /\ Len(loaded) = 3
    /\ loaded[1][2] = PyStr(<<"Meter">>)
    /\ loaded[2][2] = PyStr(<<"Kilogram">>)
    /\ loaded[3][2] = PyStr(<<"Meter">>)
    /\ category_counts = ("Length" :> 2 @@ "Weight" :> 1)

(* C9 (as claimed): in a linear category, converting v from A to B and the     *)
(* result back from B to A returns to v within 0.0001.                         *)
C9_RoundTripWithinTolerance ==
    ( /\ op = "round_trip"
      /\ group \in Linear
      /\ raised = "none" )
    => /\ back.k = "float"
       /\ Dist(back.n, values[1].n) <= 1

(* C9 (amended): in a linear category, converting v from A to B and the result *)
(* back from B to A returns to v within 0.00005 * (1 + factor[B] / factor[A]): *)
(* within 0.0001 when B is no larger a unit than A.                            *)
C9_RoundTripWithinScaledTolerance ==
    ( /\ op = "round_trip"
      /\ group \in Linear
      /\ raised = "none" )
    => /\ back.k = "float"
       /\ Dist(back.n, values[1].n)
             <= (factors[group][from_unit] + factors[group][to_unit])
                   \div (2 * factors[group][from_unit])
       /\ factors[group][to_unit] <= factors[group][from_unit]
             => Dist(back.n, values[1].n) <= 1

C9_Witness ==
    /\ op = "round_trip"
    /\ group = "Length"
    /\ from_unit = "Centimeter"
    /\ to_unit = "Mile"
    /\ values = <<Num(10000)>>
    /\ ret = PyFloat(0)
    /\ back = PyFloat(0)

(* C10: for Length, Weight and Speed the unit list of get_supported_units is   *)
(* the key set of the category's factor table, a Convert run works on units of *)
(* the selected category, and no Convert run ends in a factor lookup for a     *)
(* missing unit (KeyError).                                                    *)
C10_FormNeverMissesAFactor ==
    /\ \A c \in Linear :
          /\ c \in DOMAIN factors
          /\ Range(get_supported_units(c)) = DOMAIN factors[c]
    /\ op = "Convert" => raised # "KeyError"
    /\ op = "Convert" /\ raised = "none" =>
          /\ from_unit \in Range(get_supported_units(group))
          /\ to_unit \in Range(get_supported_units(group))

C10_Witness ==
    /\ op = "Convert"
    /\ raised = "none"
    /\ group = "Length"
    /\ from_unit = "Mile"
    /\ to_unit = "Centimeter"
    /\ Len(values) = 2
    /\ ret = PyFloat(1609340000)

====
